---- MODULE Spec2Model ----
(***************************************************************************)
(* Model of fanzhaLogQuery: the rule matchers (matcher.rs), the line       *)
(* check and file decoder (processor.rs) and the IO / worker / writer /    *)
(* progress-monitor pipeline of one task, run for the aggregated and then  *)
(* the native log population (main.rs).                                    *)
(*                                                                         *)
(* Bytes are one-character strings, byte strings are sequences of them.    *)
(* Rust slices are 0-based and half-open; the model is 1-based, so the     *)
(* Rust slice line[start..end] is SubSeq(line, start, end - 1) with start  *)
(* and end shifted by one.                                                 *)
(***************************************************************************)
EXTENDS Integers, Sequences, FiniteSets, Bags, TLC

\* Option::None of an address: the empty tuple (an address has four octets)
None == <<>>

NL == "\n"
CR == "\r"
SEP == "|"
DOT == "."

Digits == {"0", "1", "2", "3", "4", "5", "6", "7", "8", "9"}

\* b - b'0' for an ASCII digit b
DigitVal(b) ==
    CASE b = "0" -> 0 [] b = "1" -> 1 [] b = "2" -> 2 [] b = "3" -> 3
      [] b = "4" -> 4 [] b = "5" -> 5 [] b = "6" -> 6 [] b = "7" -> 7
      [] b = "8" -> 8 [] b = "9" -> 9

DigitChar(d) == <<"0", "1", "2", "3", "4", "5", "6", "7", "8", "9">>[d + 1]

\* slice::starts_with
StartsWith(s, p) == Len(p) <= Len(s) /\ SubSeq(s, 1, Len(p)) = p

\* slice::ends_with
EndsWith(s, suf) ==
    Len(suf) <= Len(s) /\ SubSeq(s, Len(s) - Len(suf) + 1, Len(s)) = suf

Contains(s, b) == \E i \in 1..Len(s) : s[i] = b

\* position of the first b in s, 0 when there is none
RECURSIVE FindFrom(_, _, _)
FindFrom(s, b, i) ==
    IF i > Len(s) THEN 0
    ELSE IF s[i] = b THEN i
    ELSE FindFrom(s, b, i + 1)

\* str::split(b): the pieces of s between occurrences of b
RECURSIVE Split(_, _)
Split(s, b) ==
    LET p == FindFrom(s, b, 1)
    IN  IF p = 0 THEN <<s>>
        ELSE <<SubSeq(s, 1, p - 1)>> \o Split(SubSeq(s, p + 1, Len(s)), b)

RECURSIVE Concat(_)
Concat(ss) == IF ss = <<>> THEN <<>> ELSE Head(ss) \o Concat(Tail(ss))

RECURSIVE SumSeq(_)
SumSeq(ns) == IF ns = <<>> THEN 0 ELSE Head(ns) + SumSeq(Tail(ns))

(***************************************************************************)
(* Decimal text of addresses.                                              *)
(***************************************************************************)

\* format!("{}", n) for an octet n
OctetText(n) ==
    IF n >= 100 THEN <<DigitChar(n \div 100), DigitChar((n \div 10) % 10), DigitChar(n % 10)>>
    ELSE IF n >= 10 THEN <<DigitChar(n \div 10), DigitChar(n % 10)>>
    ELSE <<DigitChar(n)>>

\* Display of an Ipv4Addr: canonical dotted decimal, no leading zeros
AddrText(a) ==
    OctetText(a[1]) \o <<DOT>> \o OctetText(a[2]) \o <<DOT>>
        \o OctetText(a[3]) \o <<DOT>> \o OctetText(a[4])

RECURSIVE DecValue(_)
DecValue(ds) ==
    IF ds = <<>> THEN 0
    ELSE DecValue(SubSeq(ds, 1, Len(ds) - 1)) * 10 + DigitVal(ds[Len(ds)])

AllDigits(s) == \A i \in 1..Len(s) : s[i] \in Digits

\* one octet as std's Ipv4Addr::from_str reads it: 1..3 digits, no leading
\* zero unless the octet is "0", value <= 255
StrictOctet(s) ==
    /\ Len(s) \in 1..3
    /\ AllDigits(s)
    /\ (Len(s) > 1 => s[1] # "0")
    /\ DecValue(s) <= 255

\* the four octets of parts when each is an octet of strict dotted decimal
AddrOfParts(parts) ==
    IF Len(parts) = 4 /\ \A i \in 1..4 : StrictOctet(parts[i])
    THEN <<DecValue(parts[1]), DecValue(parts[2]), DecValue(parts[3]), DecValue(parts[4])>>
    ELSE None

\* IpAddr::from_str restricted to IPv4 text (the model's alphabet has no ':')
StdParseIpAddr(s) == AddrOfParts(Split(s, DOT))

\* str::trim, a blank being " "
RECURSIVE TrimStart(_)
TrimStart(s) == IF s # <<>> /\ Head(s) = " " THEN TrimStart(Tail(s)) ELSE s

RECURSIVE TrimEnd(_)
TrimEnd(s) ==
    IF s # <<>> /\ s[Len(s)] = " " THEN TrimEnd(SubSeq(s, 1, Len(s) - 1)) ELSE s

Trim(s) == TrimEnd(TrimStart(s))

\* PartialOrd of Ipv4Addr: lexicographic on the octets
AddrLeq(a, b) ==
    \/ a = b
    \/ \E i \in 1..4 : /\ \A j \in 1..(i - 1) : a[j] = b[j]
                       /\ a[i] < b[i]

Pow2(n) == CASE n = 0 -> 1 [] n = 1 -> 2 [] n = 2 -> 4 [] n = 3 -> 8 [] n = 4 -> 16
             [] n = 5 -> 32 [] n = 6 -> 64 [] n = 7 -> 128 [] n = 8 -> 256

\* the octets of a with all bits after the first len cleared
MaskOctet(a, len, i) ==
    IF 8 * i <= len THEN a[i]
    ELSE IF 8 * (i - 1) >= len THEN 0
    ELSE LET keep == len - 8 * (i - 1)
         IN (a[i] \div Pow2(8 - keep)) * Pow2(8 - keep)

MaskAddr(a, len) ==
    <<MaskOctet(a, len, 1), MaskOctet(a, len, 2), MaskOctet(a, len, 3), MaskOctet(a, len, 4)>>

\* Ipv4Cidr::contains
CidrContains(net, len, a) == MaskAddr(a, len) = net


(***************************************************************************)
(* matcher.rs: IP rules.  A rule is one of                                 *)
(*   [kind |-> "Exact",  text |-> bytes]                                   *)
(*   [kind |-> "Prefix", prefix |-> bytes]                                 *)
(*   [kind |-> "Cidr",   net |-> address, len |-> 0..32]                   *)
(*   [kind |-> "Range",  start |-> address, end |-> address]               *)
(* and an address is a tuple of four octets (IPv4; the model's alphabet    *)
(* cannot spell an IPv6 address).                                          *)
(***************************************************************************)

\* Err(_) of IPRule::parse
RuleErr == [kind |-> "Err"]

\* Err(_) of IpCidr::from_str
NoCidr == [net |-> None, len |-> 0]

\* position of the last b in s, 0 when there is none (str::rfind)
RECURSIVE RFindFrom(_, _, _)
RFindFrom(s, b, i) ==
    IF i < 1 THEN 0
    ELSE IF s[i] = b THEN i
    ELSE RFindFrom(s, b, i - 1)

\* Ipv4Cidr::new(addr, len): refuses a length above 32 and a set host bit
CidrNew(addr, len) ==
    IF len > 32 THEN NoCidr
    ELSE IF MaskAddr(addr, len) # addr THEN NoCidr
    ELSE [net |-> addr, len |-> len]

\* the address and the length text parsed, then Ipv4Cidr::new
CidrOfParts(addr, lenT) ==
    IF addr = None \/ lenT = <<>> \/ ~AllDigits(lenT) \/ Len(lenT) > 3 THEN NoCidr
    ELSE CidrNew(addr, DecValue(lenT))

\* the text s split at its last '/', at position p
CidrSplitAt(s, p) ==
    IF p = 0 THEN NoCidr
    ELSE CidrOfParts(StdParseIpAddr(SubSeq(s, 1, p - 1)), SubSeq(s, p + 1, Len(s)))

\* IpCidr::from_str of the cidr crate on IPv4 text: address '/' length, the
\* length at most 32 and no host bit set; NoCidr for anything else
CidrFromStr(s) == CidrSplitAt(s, RFindFrom(s, "/", Len(s)))

\* the prefix text without the dot that closes its last octet
PrefixTextNoTrailingDot(octets, mask) ==
    IF mask = 24 THEN OctetText(octets[1]) \o <<DOT>> \o OctetText(octets[2]) \o <<DOT>>
                        \o OctetText(octets[3])
    ELSE IF mask = 16 THEN OctetText(octets[1]) \o <<DOT>> \o OctetText(octets[2])
    ELSE OctetText(octets[1])

\* the format!() calls of IPRule::parse for mask 24, 16 and 8
PrefixText(octets, mask) ==
    IF mask = 24 THEN OctetText(octets[1]) \o <<DOT>> \o OctetText(octets[2]) \o <<DOT>>
                        \o OctetText(octets[3]) \o <<DOT>>
    ELSE IF mask = 16 THEN OctetText(octets[1]) \o <<DOT>> \o OctetText(octets[2]) \o <<DOT>>
    ELSE OctetText(octets[1]) \o <<DOT>>

\* Ok(IPRule::Range(start, end)), or the ? of a failed IpAddr::from_str
RangeOf(start, end) ==
    IF start = None \/ end = None THEN RuleErr
    ELSE [kind |-> "Range", start |-> start, end |-> end]

\* the "Try Range" and "Default Exact" parts of IPRule::parse
RangeOrExact(input, parts) ==
    IF Contains(input, "-") /\ Len(parts) = 2
    THEN RangeOf(StdParseIpAddr(Trim(parts[1])), StdParseIpAddr(Trim(parts[2])))
    ELSE [kind |-> "Exact", text |-> input]

\* the "Try CIDR" part of IPRule::parse, given what IpCidr::from_str returned
RuleOfCidr(input, cidr) ==
    IF cidr # NoCidr
    THEN IF cidr.len \in {8, 16, 24}
         THEN [kind |-> "Prefix", prefix |-> PrefixText(cidr.net, cidr.len)]
         ELSE [kind |-> "Cidr", net |-> cidr.net, len |-> cidr.len]
    ELSE RangeOrExact(input, Split(input, "-"))

\* IPRule::parse: a rule, or RuleErr
IPRuleParse(input) ==
    RuleOfCidr(input, IF Contains(input, "/") THEN CidrFromStr(input) ELSE NoCidr)

\* the loop of parse_ip_from_bytes from byte i on; current is a u16 and
\* wraps (release profile: no overflow checks)
RECURSIVE ParseIpLoop(_, _, _, _, _, _)
ParseIpLoop(bytes, i, octets, octet_idx, current, has_digit) ==
    IF i > Len(bytes)
    THEN IF octet_idx = 3 /\ has_digit /\ current <= 255
         THEN Append(octets, current % 256)
         ELSE None
    ELSE IF bytes[i] = DOT
    THEN IF ~has_digit \/ octet_idx >= 3 \/ current > 255
         THEN None
         ELSE ParseIpLoop(bytes, i + 1, Append(octets, current % 256),
                          octet_idx + 1, 0, FALSE)
    ELSE IF bytes[i] \in Digits
    THEN ParseIpLoop(bytes, i + 1, octets, octet_idx,
                     (current * 10 + DigitVal(bytes[i])) % 65536, TRUE)
    ELSE StdParseIpAddr(bytes)

\* parse_ip_from_bytes: an address, or None
ParseIpFromBytes(bytes) ==
    IF Len(bytes) > 15 THEN StdParseIpAddr(bytes)
    ELSE ParseIpLoop(bytes, 1, <<>>, 0, 0, FALSE)

\* current * 10 + digit leaves the u16 somewhere in the loop of
\* parse_ip_from_bytes from byte i on: a build with overflow checks panics
\* there, one without goes on with the wrapped value
RECURSIVE ParseIpOverflows(_, _, _, _, _)
ParseIpOverflows(bytes, i, octet_idx, current, has_digit) ==
    IF i > Len(bytes) THEN FALSE
    ELSE IF bytes[i] = DOT
    THEN IF ~has_digit \/ octet_idx >= 3 \/ current > 255
         THEN FALSE
         ELSE ParseIpOverflows(bytes, i + 1, octet_idx + 1, 0, FALSE)
    ELSE IF bytes[i] \in Digits
    THEN IF current * 10 + DigitVal(bytes[i]) > 65535
         THEN TRUE
         ELSE ParseIpOverflows(bytes, i + 1, octet_idx,
                               current * 10 + DigitVal(bytes[i]), TRUE)
    ELSE FALSE

\* if let Some(ip) = .. { return cidr.contains(&ip); } false
CidrMatches(rule, ip) == IF ip # None THEN CidrContains(rule.net, rule.len, ip) ELSE FALSE

\* if let Some(ip) = .. { return ip >= *start && ip <= *end; } false
RangeMatches(rule, ip) ==
    IF ip # None THEN AddrLeq(rule.start, ip) /\ AddrLeq(ip, rule.end) ELSE FALSE

\* IPRule::matches
IPRuleMatches(rule, ip_bytes) ==
    CASE rule.kind = "Exact"  -> ip_bytes = rule.text
      [] rule.kind = "Prefix" -> StartsWith(ip_bytes, rule.prefix)
      [] rule.kind = "Cidr"   -> CidrMatches(rule, ParseIpFromBytes(ip_bytes))
      [] rule.kind = "Range"  -> RangeMatches(rule, ParseIpFromBytes(ip_bytes))

\* rules.push(IPRule::parse(input)?) in front of the rules of the later inputs
PushRule(rule, rest) ==
    IF rule = RuleErr \/ ~rest.ok THEN [ok |-> FALSE, rules |-> <<>>]
    ELSE [ok |-> TRUE, rules |-> <<rule>> \o rest.rules]

\* IPMatcher::new: [ok |-> TRUE, rules |-> the rules of the non-blank
\* inputs], or [ok |-> FALSE, rules |-> <<>>] when one of them fails to parse
RECURSIVE IPMatcherNew(_)
IPMatcherNew(inputs) ==
    IF inputs = <<>> THEN [ok |-> TRUE, rules |-> <<>>]
    ELSE IF Trim(Head(inputs)) = <<>> THEN IPMatcherNew(Tail(inputs))
    ELSE PushRule(IPRuleParse(Head(inputs)), IPMatcherNew(Tail(inputs)))

\* IPMatcher::matches without the empty-set wildcard
IPMatcherAnyOnly(rules, ip_bytes) ==
    \E i \in 1..Len(rules) : IPRuleMatches(rules[i], ip_bytes)

\* IPMatcher::matches
IPMatcherMatches(rules, ip_bytes) ==
    IF rules = <<>> THEN TRUE
    ELSE \E i \in 1..Len(rules) : IPRuleMatches(rules[i], ip_bytes)

(***************************************************************************)
(* matcher.rs: domain rules, [kind |-> "Exact" or "Wildcard", text].       *)
(***************************************************************************)

\* DomainRule::parse
DomainRuleParse(input) ==
    IF StartsWith(input, <<"*", DOT>>)
    THEN [kind |-> "Wildcard", text |-> SubSeq(input, 3, Len(input))]
    ELSE [kind |-> "Exact", text |-> input]

\* a mutant of DomainRuleMatches: a wildcard rule asks for the suffix alone
DomainRuleMatchesAnySuffix(rule, domain) ==
    IF rule.kind = "Exact" THEN domain = rule.text
    ELSE EndsWith(domain, rule.text)

\* DomainRule::matches
DomainRuleMatches(rule, domain) ==
    IF rule.kind = "Exact" THEN domain = rule.text
    ELSE IF Len(domain) < Len(rule.text) THEN FALSE
    ELSE IF ~EndsWith(domain, rule.text) THEN FALSE
    ELSE Len(domain) = Len(rule.text) \/ domain[Len(domain) - Len(rule.text)] = DOT

\* DomainMatcher::new
RECURSIVE DomainMatcherNew(_)
DomainMatcherNew(inputs) ==
    IF inputs = <<>> THEN <<>>
    ELSE IF Trim(Head(inputs)) = <<>> THEN DomainMatcherNew(Tail(inputs))
    ELSE <<DomainRuleParse(Head(inputs))>> \o DomainMatcherNew(Tail(inputs))

\* DomainMatcher::matches
DomainMatcherMatches(rules, domain) ==
    IF rules = <<>> THEN TRUE
    ELSE \E i \in 1..Len(rules) : DomainRuleMatches(rules[i], domain)

(***************************************************************************)
(* processor.rs.  A processor is [ip |-> IP rules, domain |-> domain       *)
(* rules]; a schema is [ip_idx, domain_idx].                               *)
(***************************************************************************)

AGGREGATED_LOG_IP_INDEX == 0
AGGREGATED_LOG_DOMAIN_INDEX == 1
NATIVE_LOG_IP_INDEX == 4
NATIVE_LOG_DOMAIN_INDEX == 7

AggregatedSchema ==
    [ip_idx |-> AGGREGATED_LOG_IP_INDEX, domain_idx |-> AGGREGATED_LOG_DOMAIN_INDEX]

NativeSchema ==
    [ip_idx |-> NATIVE_LOG_IP_INDEX, domain_idx |-> NATIVE_LOG_DOMAIN_INDEX]

Max(a, b) == IF a >= b THEN a ELSE b

\* memchr_iter(b'|', line): the positions of the separators, ascending
RECURSIVE SepPositionsFrom(_, _)
SepPositionsFrom(line, i) ==
    IF i > Len(line) THEN <<>>
    ELSE IF line[i] = SEP THEN <<i>> \o SepPositionsFrom(line, i + 1)
    ELSE SepPositionsFrom(line, i + 1)

SepPositions(line) == SepPositionsFrom(line, 1)

\* the field check_line takes after its loop: &line[start..]
TailField(line, start) == SubSeq(line, start, Len(line))

\* max_idx of check_line
MaxIdx(filter_ip, filter_domain, schema) ==
    IF filter_ip /\ filter_domain THEN Max(schema.ip_idx, schema.domain_idx)
    ELSE IF filter_ip THEN schema.ip_idx
    ELSE schema.domain_idx

\* if current_idx == ip_idx && filter_ip { if ip_matcher.matches(field) { ip_matched = true } }
IpMatchedAfter(proc, field, current_idx, ip_matched, filter_ip, schema) ==
    \/ ip_matched
    \/ /\ current_idx = schema.ip_idx /\ filter_ip
       /\ IPMatcherMatches(proc.ip, field)

\* the same for the domain
DomainMatchedAfter(proc, field, current_idx, domain_matched, filter_domain, schema) ==
    \/ domain_matched
    \/ /\ current_idx = schema.domain_idx /\ filter_domain
       /\ DomainMatcherMatches(proc.domain, field)

LoopOut(r, current_idx, start, ipm, dm) ==
    [ret |-> r, current_idx |-> current_idx, start |-> start,
     ip_matched |-> ipm, domain_matched |-> dm]

\* the while-let loop of check_line from the k-th separator on.  The result
\* is [ret, current_idx, start, ip_matched, domain_matched]; ret says the
\* loop returned true from inside.
RECURSIVE CheckLineLoop(_, _, _, _, _, _, _, _, _, _, _)
\* the rest of one round of the loop, after the two matchers were asked
CheckLineRound(proc, line, seps, k, current_idx, start, ipm, dm, filter_ip, filter_domain, schema) ==
    IF ipm /\ dm THEN LoopOut(TRUE, current_idx, start, ipm, dm)
    ELSE IF current_idx >= MaxIdx(filter_ip, filter_domain, schema)
    THEN LoopOut(FALSE, current_idx, start, ipm, dm)
    ELSE CheckLineLoop(proc, line, seps, k + 1, current_idx + 1, seps[k] + 1,
                       ipm, dm, filter_ip, filter_domain, schema)

CheckLineLoop(proc, line, seps, k, current_idx, start, ip_matched, domain_matched, filter_ip, filter_domain, schema) ==
    IF k > Len(seps)
    THEN LoopOut(FALSE, current_idx, start, ip_matched, domain_matched)
    ELSE CheckLineRound(proc, line, seps, k, current_idx, start,
            IpMatchedAfter(proc, SubSeq(line, start, seps[k] - 1), current_idx,
                           ip_matched, filter_ip, schema),
            DomainMatchedAfter(proc, SubSeq(line, start, seps[k] - 1), current_idx,
                               domain_matched, filter_domain, schema),
            filter_ip, filter_domain, schema)

\* check_line after its loop: "Handle the last field if it's the one we need"
CheckLineTail(proc, line, l, filter_ip, filter_domain, schema) ==
    IF l.ret THEN TRUE
    ELSE IF l.current_idx <= MaxIdx(filter_ip, filter_domain, schema)
    THEN /\ IpMatchedAfter(proc, TailField(line, l.start), l.current_idx,
                           l.ip_matched, filter_ip, schema)
         /\ DomainMatchedAfter(proc, TailField(line, l.start), l.current_idx,
                               l.domain_matched, filter_domain, schema)
    ELSE l.ip_matched /\ l.domain_matched

\* a mutant of CheckLine: with no filter no line matches
CheckLineNoFilterNoMatch(proc, line, filter_ip, filter_domain, schema) ==
    IF ~filter_ip /\ ~filter_domain THEN FALSE
    ELSE CheckLineTail(proc, line,
            CheckLineLoop(proc, line, SepPositions(line), 1, 0, 1,
                          ~filter_ip, ~filter_domain, filter_ip, filter_domain, schema),
            filter_ip, filter_domain, schema)

\* FileProcessor::check_line
CheckLine(proc, line, filter_ip, filter_domain, schema) ==
    IF ~filter_ip /\ ~filter_domain THEN TRUE
    ELSE CheckLineTail(proc, line,
            CheckLineLoop(proc, line, SepPositions(line), 1, 0, 1,
                          ~filter_ip, ~filter_domain, filter_ip, filter_domain, schema),
            filter_ip, filter_domain, schema)

(***************************************************************************)
(* The file decoder.  The bytes of a file are modelled by what the gzip    *)
(* decoder makes of them: [plain |-> the decoded bytes it delivers,        *)
(* err |-> whether it then fails instead of reporting the end].            *)
(***************************************************************************)

\* BufRead::read_until(b'\n') called until the stream ends: the pieces of
\* plain, each with its closing "\n" when it has one
RECURSIVE ReadLines(_)
ReadLines(plain) ==
    LET p == FindFrom(plain, NL, 1)
    IN  IF plain = <<>> THEN <<>>
        ELSE IF p = 0 THEN <<plain>>
        ELSE <<SubSeq(plain, 1, p)>> \o ReadLines(SubSeq(plain, p + 1, Len(plain)))

\* the two pops of process_reader: one trailing "\n", then one trailing "\r"
TrimLine(raw) ==
    LET a == IF raw # <<>> /\ raw[Len(raw)] = NL THEN SubSeq(raw, 1, Len(raw) - 1) ELSE raw
    IN  IF a # <<>> /\ a[Len(a)] = CR THEN SubSeq(a, 1, Len(a) - 1) ELSE a

\* whether the last piece read has no closing "\n"
Unterminated(raw) == raw # <<>> /\ raw[Len(raw)][Len(raw[Len(raw)])] # NL

\* the lines read_until hands over before the stream ends or fails: a
\* failing stream yields an error in place of its unterminated last piece
LinesOf(raw, err) ==
    IF err /\ Unterminated(raw) THEN SubSeq(raw, 1, Len(raw) - 1) ELSE raw

LinesRead(data) == LinesOf(ReadLines(data.plain), data.err)

\* one round of the loop of process_reader on the trimmed line
KeepLine(proc, line, rest, schema) ==
    IF line = <<>> THEN rest
    ELSE IF CheckLine(proc, line, proc.ip # <<>>, proc.domain # <<>>, schema)
    THEN <<line>> \o rest
    ELSE rest

\* the lines process_reader gives to the callback, in order
RECURSIVE MatchedOf(_, _, _)
MatchedOf(proc, raws, schema) ==
    IF raws = <<>> THEN <<>>
    ELSE KeepLine(proc, TrimLine(Head(raws)), MatchedOf(proc, Tail(raws), schema), schema)

\* Ok(match_count), or the error of a failed read_until
ResultOf(calls, err) ==
    [calls  |-> calls,
     result |-> IF err THEN [ok |-> FALSE, count |-> 0]
                ELSE [ok |-> TRUE, count |-> Len(calls)]]

\* process_reader / process_native_reader: the lines given to the callback,
\* in order, and the returned Result
ProcessReader(proc, data, schema) ==
    ResultOf(MatchedOf(proc, LinesRead(data), schema), data.err)

(***************************************************************************)
(* Bounds of the model.  The two channel capacities and the flush          *)
(* threshold stand for bounded(4), bounded(1024) and 128 * 1024 of         *)
(* main.rs, scaled down so that full channels and mid-file flushes happen  *)
(* with a handful of short files.                                          *)
(***************************************************************************)

MaxFiles == 3
MaxWorkers == 2
DataChanCap == 1
OutChanCap == 1
FlushThreshold == 21

(***************************************************************************)
(* Inputs of the pipeline: the configured processor and the decoded        *)
(* content of the files the IO thread reads.                               *)
(***************************************************************************)

IpA == <<"1", ".", "1", ".", "1", ".", "1">>
IpB == <<"2", ".", "1", ".", "1", ".", "1">>
DomA == <<"a", ".", "e", "x">>
DomB == <<"b", ".", "o", "r", "g">>

\* an aggregated record: IP at field 0, domain at field 1
AggLine(ip, dom) == ip \o <<SEP>> \o dom \o <<SEP, "x">>

\* a native record: IP at field 4, domain at field 7
NatLine(ip, dom) == <<SEP, SEP, SEP, SEP>> \o ip \o <<SEP, SEP, SEP>> \o dom

\* FileProcessor::new for source_ip = ["1.0.0.0/8"], query_domain = ["*.ex"]
FilterProcessor ==
    [ip |-> IPMatcherNew(<<<<"1", ".", "0", ".", "0", ".", "0", "/", "8">>>>).rules,
     domain |-> DomainMatcherNew(<<<<"*", ".", "e", "x">>>>)]

\* FileProcessor::new for the empty rule sets
MatchAllProcessor == [ip |-> <<>>, domain |-> <<>>]

\* the n-th record of a file of the task's population, n written in a field
\* no filter reads: the last field of an aggregated record, the first of a
\* native one
RecordOf(t, ip, dom, n) ==
    IF t = "aggregated" THEN ip \o <<SEP>> \o dom \o <<SEP, DigitChar(n)>>
    ELSE <<DigitChar(n)>> \o NatLine(ip, dom)

\* what the files hold: four records, the second of another address, with a
\* "\r\n" ending, an empty line and an unterminated last line; one record and
\* a cut-off second one on a stream that then fails; one record of another
\* domain
FileContents(t) ==
    { [plain |-> RecordOf(t, IpA, DomA, 1) \o <<CR, NL, NL>> \o RecordOf(t, IpB, DomA, 2)
                    \o <<NL>> \o RecordOf(t, IpA, DomA, 3) \o <<NL>>
                    \o RecordOf(t, IpA, DomA, 4),
       err |-> FALSE],
      [plain |-> RecordOf(t, IpA, DomA, 1) \o <<NL>> \o RecordOf(t, IpA, DomA, 2),
       err |-> TRUE],
      [plain |-> RecordOf(t, IpA, DomB, 1) \o <<NL>>, err |-> FALSE] }

FileContentsOf(t) == FileContents(t)

SchemaOf(t) == IF t = "aggregated" THEN AggregatedSchema ELSE NativeSchema

\* the decoder's lines and result for each file the configured filter is
\* run on, computed once
DecodedFiles ==
    [t \in {"aggregated", "native"} |->
        [d \in FileContents(t) |-> ProcessReader(FilterProcessor, d, SchemaOf(t))]]

\* processor.process_aggregated_data(&data, ..) in the aggregated task,
\* processor.process_native_data(&data, ..) in the native one
ProcessData(proc, t, d) ==
    IF proc = FilterProcessor /\ d \in FileContents(t) THEN DecodedFiles[t][d]
    ELSE ProcessReader(proc, d, SchemaOf(t))

NoData == [plain |-> <<>>, err |-> FALSE]
NoTask == [path |-> 0, data |-> NoData]
NoResult == [ok |-> TRUE, count |-> 0]

VARIABLES
    processor,        \* Arc<FileProcessor>: [ip, domain]
    pool_size,        \* config.worker_pool_size
    native_flag,      \* config.is_query_native_log.to_lowercase() == "yes"
    task,             \* "aggregated" or "native": which run_*_log_search runs
    pcMain,           \* where the main thread is
    total_files,      \* files.len(); the paths are 1..total_files
    join_idx,         \* the worker handle the main thread joins next
    sum_matches,      \* the sum of the joined workers' totals
    reported,         \* the record count the task printed, -1 before
    tx_main,          \* the main thread still holds its output sender
    ioPc, ioIdx, ioBuf,       \* IO thread: position, current path, read buffer
    data_chan,        \* the file-bytes channel
    wPc, wTask, wCalls, wResult, local_buffer, wOut, total_matches,   \* workers
    out_chan,         \* the output channel
    writerPc, out_file, total_bytes,     \* writer thread
    processed_count,  \* the shared AtomicUsize
    monPc,            \* progress thread
    expected,         \* history: sum of the decoder's counts of the files read
    skipped,          \* history: files the IO thread skipped
    sunk,             \* history: bag of the lines given to the per-line sink
    sunk_failed,      \* history: how many of them came from a file that failed to decode
    sent,             \* history: bag of the chunks sent on the output channel
    appended,         \* history: bag of the chunks the writer appended
    arg, res          \* input and result of the pure-function specifications

mainVars == <<task, pcMain, total_files, join_idx, sum_matches, reported, tx_main>>
confVars == <<processor, pool_size, native_flag>>
ioVars == <<ioPc, ioIdx, ioBuf>>
workerVars == <<wPc, wTask, wCalls, wResult, local_buffer, wOut, total_matches>>
writerVars == <<writerPc, out_file, total_bytes>>
monVars == <<monPc>>
histVars == <<expected, skipped, sunk, sunk_failed, sent, appended>>
pureVars == <<arg, res>>

vars == <<confVars, mainVars, ioVars, data_chan, workerVars, out_chan, writerVars,
          processed_count, monVars, histVars, pureVars>>

Workers == 1..pool_size

\* one task's threads and channels before its spawns
PipelineInit ==
    /\ join_idx = 1
    /\ sum_matches = 0
    /\ reported = -1
    /\ tx_main = FALSE
    /\ ioPc = "idle" /\ ioIdx = 1 /\ ioBuf = NoData
    /\ data_chan = <<>>
    /\ wPc = [w \in 1..MaxWorkers |-> "idle"]
    /\ wTask = [w \in 1..MaxWorkers |-> NoTask]
    /\ wCalls = [w \in 1..MaxWorkers |-> <<>>]
    /\ wResult = [w \in 1..MaxWorkers |-> NoResult]
    /\ local_buffer = [w \in 1..MaxWorkers |-> <<>>]
    /\ wOut = [w \in 1..MaxWorkers |-> <<>>]
    /\ total_matches = [w \in 1..MaxWorkers |-> 0]
    /\ out_chan = <<>>
    /\ writerPc = "idle" /\ out_file = <<>> /\ total_bytes = 0
    /\ processed_count = 0
    /\ monPc = "idle"
    /\ expected = 0 /\ skipped = 0
    /\ sunk = EmptyBag /\ sunk_failed = 0
    /\ sent = EmptyBag /\ appended = EmptyBag

\* a mutant of PipelineReset: the next task counts on in the last task's counter
PipelineResetKeepsCounter ==
    /\ join_idx' = 1
    /\ sum_matches' = 0
    /\ reported' = -1
    /\ tx_main' = FALSE
    /\ ioPc' = "idle" /\ ioIdx' = 1 /\ ioBuf' = NoData
    /\ data_chan' = <<>>
    /\ wPc' = [w \in 1..MaxWorkers |-> "idle"]
    /\ wTask' = [w \in 1..MaxWorkers |-> NoTask]
    /\ wCalls' = [w \in 1..MaxWorkers |-> <<>>]
    /\ wResult' = [w \in 1..MaxWorkers |-> NoResult]
    /\ local_buffer' = [w \in 1..MaxWorkers |-> <<>>]
    /\ wOut' = [w \in 1..MaxWorkers |-> <<>>]
    /\ total_matches' = [w \in 1..MaxWorkers |-> 0]
    /\ out_chan' = <<>>
    /\ writerPc' = "idle" /\ out_file' = <<>> /\ total_bytes' = 0
    /\ processed_count' = processed_count
    /\ monPc' = "idle"
    /\ expected' = 0 /\ skipped' = 0
    /\ sunk' = EmptyBag /\ sunk_failed' = 0
    /\ sent' = EmptyBag /\ appended' = EmptyBag

\* the same for the next task: nothing of a task's pipeline outlives it
PipelineReset ==
    /\ join_idx' = 1
    /\ sum_matches' = 0
    /\ reported' = -1
    /\ tx_main' = FALSE
    /\ ioPc' = "idle" /\ ioIdx' = 1 /\ ioBuf' = NoData
    /\ data_chan' = <<>>
    /\ wPc' = [w \in 1..MaxWorkers |-> "idle"]
    /\ wTask' = [w \in 1..MaxWorkers |-> NoTask]
    /\ wCalls' = [w \in 1..MaxWorkers |-> <<>>]
    /\ wResult' = [w \in 1..MaxWorkers |-> NoResult]
    /\ local_buffer' = [w \in 1..MaxWorkers |-> <<>>]
    /\ wOut' = [w \in 1..MaxWorkers |-> <<>>]
    /\ total_matches' = [w \in 1..MaxWorkers |-> 0]
    /\ out_chan' = <<>>
    /\ writerPc' = "idle" /\ out_file' = <<>> /\ total_bytes' = 0
    /\ processed_count' = 0
    /\ monPc' = "idle"
    /\ expected' = 0 /\ skipped' = 0
    /\ sunk' = EmptyBag /\ sunk_failed' = 0
    /\ sent' = EmptyBag /\ appended' = EmptyBag

\* no function of the unit specifications is being called
NoCall == [op |-> "none"]

Init ==
    /\ processor = FilterProcessor
    /\ pool_size \in 1..MaxWorkers
    /\ native_flag \in BOOLEAN
    /\ task = "aggregated"
    /\ pcMain = "find_files"
    /\ total_files = 0
    /\ PipelineInit
    /\ arg = NoCall /\ res = NoCall

(***************************************************************************)
(* The main thread: main, run_aggregated_log_search and                    *)
(* run_native_log_search (the two differ in the decoder schema only).      *)
(***************************************************************************)

\* the main thread is inside a run_*_log_search with its threads spawned;
\* when main returns or panics the process ends and its threads with it
Running ==
    pcMain \in {"join_io", "join_workers", "drop_tx", "join_writer", "join_progress"}

\* find_files / find_files_native and the files.is_empty() early return
FindFiles ==
    /\ pcMain = "find_files"
    /\ \E n \in 0..MaxFiles :
        /\ total_files' = n
        /\ pcMain' = IF n = 0 THEN "returned" ELSE "create_dir"
    /\ UNCHANGED <<confVars, task, join_idx, sum_matches, reported, tx_main, ioVars,
                   data_chan, workerVars, out_chan, writerVars, processed_count,
                   monVars, histVars, pureVars>>

\* fs::create_dir_all(parent)?: on failure the task returns the error
CreateDir ==
    /\ pcMain = "create_dir"
    /\ \E ok \in BOOLEAN : pcMain' = IF ok THEN "spawn" ELSE "task_err"
    /\ UNCHANGED <<confVars, task, total_files, join_idx, sum_matches, reported, tx_main,
                   ioVars, data_chan, workerVars, out_chan, writerVars, processed_count,
                   monVars, histVars, pureVars>>

\* the channels and the thread::spawn calls: writer, progress reporter, IO
\* thread and pool_size workers
Spawn ==
    /\ pcMain = "spawn"
    /\ pcMain' = "join_io"
    /\ tx_main' = TRUE
    /\ writerPc' = "create"
    /\ monPc' = "loop"
    /\ ioPc' = "open"
    /\ wPc' = [w \in 1..MaxWorkers |-> IF w \in Workers THEN "recv" ELSE "idle"]
    /\ UNCHANGED <<confVars, task, total_files, join_idx, sum_matches, reported, ioIdx,
                   ioBuf, data_chan, wTask, wCalls, wResult, local_buffer, wOut,
                   total_matches, out_chan, out_file, total_bytes, processed_count,
                   histVars, pureVars>>

\* io_handle.join().unwrap()
JoinIO ==
    /\ pcMain = "join_io"
    /\ ioPc = "done"
    /\ pcMain' = "join_workers"
    /\ UNCHANGED <<confVars, task, total_files, join_idx, sum_matches, reported, tx_main,
                   ioVars, data_chan, workerVars, out_chan, writerVars, processed_count,
                   monVars, histVars, pureVars>>

\* handles.into_iter().map(|h| h.join().unwrap()).sum(): one handle; the
\* unwrap panics the main thread when the worker panicked
JoinWorker ==
    /\ pcMain = "join_workers"
    /\ wPc[join_idx] \in {"exited", "panicked"}
    /\ IF wPc[join_idx] = "panicked"
       THEN /\ pcMain' = "panicked"
            /\ UNCHANGED <<join_idx, sum_matches>>
       ELSE /\ sum_matches' = sum_matches + total_matches[join_idx]
            /\ join_idx' = join_idx + 1
            /\ pcMain' = IF join_idx = pool_size THEN "drop_tx" ELSE "join_workers"
    /\ UNCHANGED <<confVars, task, total_files, reported, tx_main, ioVars, data_chan,
                   workerVars, out_chan, writerVars, processed_count, monVars, histVars,
                   pureVars>>

\* a mutant of DropTx: main goes on to join the writer with its sender kept
DropTxKeepsSender ==
    /\ pcMain = "drop_tx"
    /\ pcMain' = "join_writer"
    /\ UNCHANGED <<confVars, task, total_files, join_idx, sum_matches, reported, tx_main,
                   ioVars, data_chan, workerVars, out_chan, writerVars, processed_count,
                   monVars, histVars, pureVars>>

\* drop(tx)
DropTx ==
    /\ pcMain = "drop_tx"
    /\ tx_main' = FALSE
    /\ pcMain' = "join_writer"
    /\ UNCHANGED <<confVars, task, total_files, join_idx, sum_matches, reported, ioVars,
                   data_chan, workerVars, out_chan, writerVars, processed_count, monVars,
                   histVars, pureVars>>

\* let _ = writer_handle.join().unwrap(): the writer's Result is dropped
JoinWriter ==
    /\ pcMain = "join_writer"
    /\ writerPc \in {"ok", "err"}
    /\ pcMain' = "join_progress"
    /\ UNCHANGED <<confVars, task, total_files, join_idx, sum_matches, reported, tx_main,
                   ioVars, data_chan, workerVars, out_chan, writerVars, processed_count,
                   monVars, histVars, pureVars>>

\* let _ = progress_handle.join()
JoinProgress ==
    /\ pcMain = "join_progress"
    /\ monPc = "done"
    /\ pcMain' = "report"
    /\ UNCHANGED <<confVars, task, total_files, join_idx, sum_matches, reported, tx_main,
                   ioVars, data_chan, workerVars, out_chan, writerVars, processed_count,
                   monVars, histVars, pureVars>>

\* println!("... 共写入 {} 条记录", total_matches); Ok(())
Report ==
    /\ pcMain = "report"
    /\ reported' = sum_matches
    /\ pcMain' = "returned"
    /\ UNCHANGED <<confVars, task, total_files, join_idx, sum_matches, tx_main, ioVars,
                   data_chan, workerVars, out_chan, writerVars, processed_count, monVars,
                   histVars, pureVars>>

\* a mutant of PropagateErr: main goes on after a task's error
PropagateErrGoesOn ==
    /\ pcMain = "task_err"
    /\ pcMain' = "returned"
    /\ UNCHANGED <<confVars, task, total_files, join_idx, sum_matches, reported, tx_main,
                   ioVars, data_chan, workerVars, out_chan, writerVars, processed_count,
                   monVars, histVars, pureVars>>

\* the ? of run_aggregated_log_search(..)? and run_native_log_search(..)? in
\* main: the task's error ends main
PropagateErr ==
    /\ pcMain = "task_err"
    /\ pcMain' = "exit_err"
    /\ UNCHANGED <<confVars, task, total_files, join_idx, sum_matches, reported, tx_main,
                   ioVars, data_chan, workerVars, out_chan, writerVars, processed_count,
                   monVars, histVars, pureVars>>

\* main after run_aggregated_log_search returned Ok: the native task when the
\* flag says yes (its expect() on native_log_loc panics when that is unset),
\* and the end of main otherwise and after the native task
AfterTask ==
    /\ pcMain = "returned"
    /\ IF task = "aggregated" /\ native_flag
       THEN \E loc_set \in BOOLEAN :
              IF loc_set
              THEN /\ task' = "native"
                   /\ pcMain' = "find_files"
                   /\ total_files' = 0
                   /\ PipelineReset
              ELSE /\ pcMain' = "panicked"
                   /\ UNCHANGED <<task, total_files, join_idx, sum_matches, reported,
                                  tx_main, ioVars, data_chan, workerVars, out_chan,
                                  writerVars, processed_count, monVars, histVars>>
       ELSE /\ pcMain' = "exit_ok"
            /\ UNCHANGED <<task, total_files, join_idx, sum_matches, reported, tx_main,
                           ioVars, data_chan, workerVars, out_chan, writerVars,
                           processed_count, monVars, histVars>>
    /\ UNCHANGED <<confVars, pureVars>>

(***************************************************************************)
(* The IO thread.                                                          *)
(***************************************************************************)

\* the receiving side of the file-bytes channel is alive: the main thread
\* keeps its data_rx for the whole task, each worker a clone until it ends
DataReceiverAlive ==
    Running \/ \E w \in Workers : wPc[w] \notin {"exited", "panicked"}

\* a mutant of DataChanHasRoom: the channel takes one task more than its capacity
DataChanHasRoomOneMore == Len(data_chan) <= DataChanCap

\* bounded::<(PathBuf, Vec<u8>)>(cap): a send goes through while fewer than
\* cap tasks are queued
DataChanHasRoom == Len(data_chan) < DataChanCap

\* the for loop's next path: File::open and read_to_end.  Either fails and the
\* file is skipped, or the whole file is in the buffer; after the last path the
\* thread ends and data_tx is dropped
IORead ==
    /\ Running
    /\ ioPc = "open"
    /\ IF ioIdx > total_files
       THEN /\ ioPc' = "done"
            /\ UNCHANGED <<ioIdx, ioBuf, expected, skipped>>
       ELSE \E outcome \in {"open_err", "read_err", "ok"} :
              IF outcome = "ok"
              THEN \E d \in FileContentsOf(task) :
                     /\ ioBuf' = d
                     /\ ioPc' = "send"
                     /\ expected' = expected
                            + ProcessData(processor, task, d).result.count
                     /\ UNCHANGED <<ioIdx, skipped>>
              ELSE /\ ioIdx' = ioIdx + 1
                   /\ skipped' = skipped + 1
                   /\ UNCHANGED <<ioPc, ioBuf, expected>>
    /\ UNCHANGED <<confVars, mainVars, data_chan, workerVars, out_chan, writerVars,
                   processed_count, monVars, sunk, sunk_failed, sent, appended, pureVars>>

\* data_tx.send((path, buffer)): blocks while the channel is full, fails when
\* no receiver is left and the loop breaks
IOSend ==
    /\ Running
    /\ ioPc = "send"
    /\ IF ~DataReceiverAlive
       THEN /\ ioPc' = "done"
            /\ ioBuf' = NoData
            /\ UNCHANGED <<ioIdx, data_chan>>
       ELSE /\ DataChanHasRoom
            /\ data_chan' = Append(data_chan, [path |-> ioIdx, data |-> ioBuf])
            /\ ioBuf' = NoData
            /\ ioIdx' = ioIdx + 1
            /\ ioPc' = "open"
    /\ UNCHANGED <<confVars, mainVars, workerVars, out_chan, writerVars,
                   processed_count, monVars, histVars, pureVars>>

(***************************************************************************)
(* The writer thread.                                                      *)
(***************************************************************************)

\* a sender of the output channel is alive: the main thread's tx or a
\* worker's clone
OutSenderAlive ==
    tx_main \/ \E w \in Workers : wPc[w] \notin {"idle", "exited", "panicked"}

\* the receiver of the output channel is alive
OutReceiverAlive == writerPc \in {"create", "drain"}

\* a mutant of OutChanHasRoom: the channel takes a chunk whatever it holds
OutChanHasRoomAlways == TRUE

\* bounded::<Vec<u8>>(cap): a send goes through while fewer than cap chunks
\* are queued
OutChanHasRoom == Len(out_chan) < OutChanCap

\* File::create(&output_path)?: on failure the thread returns the error and
\* rx is dropped
WriterCreate ==
    /\ Running
    /\ writerPc = "create"
    /\ \E ok \in BOOLEAN : writerPc' = IF ok THEN "drain" ELSE "err"
    /\ UNCHANGED <<confVars, mainVars, ioVars, data_chan, workerVars, out_chan,
                   out_file, total_bytes, processed_count, monVars, histVars, pureVars>>

\* for chunk in rx { write_all; total_bytes += len }, and after the channel
\* closed and drained writer.flush() and Ok(total_bytes)
WriterDrain ==
    /\ Running
    /\ writerPc = "drain"
    /\ IF out_chan # <<>>
       THEN /\ out_file' = out_file \o Head(out_chan)
            /\ total_bytes' = total_bytes + Len(Head(out_chan))
            /\ appended' = appended (+) SetToBag({Head(out_chan)})
            /\ out_chan' = Tail(out_chan)
            /\ UNCHANGED writerPc
       ELSE /\ ~OutSenderAlive
            /\ writerPc' = "ok"
            /\ UNCHANGED <<out_file, total_bytes, appended, out_chan>>
    /\ UNCHANGED <<confVars, mainVars, ioVars, data_chan, workerVars,
                   processed_count, monVars, expected, skipped, sunk, sunk_failed, sent,
                   pureVars>>

(***************************************************************************)
(* The progress reporter thread.                                           *)
(***************************************************************************)

\* a mutant of MonitorPoll: the loop is left whatever the counter says
MonitorPollLeaves ==
    /\ Running
    /\ monPc = "loop"
    /\ monPc' = "done"
    /\ UNCHANGED <<confVars, mainVars, ioVars, data_chan, workerVars, out_chan,
                   writerVars, processed_count, histVars, pureVars>>

\* one round of the loop: sleep, current_count = load of the counter,
\* (report,) and break when current_count >= total_files
MonitorPoll ==
    /\ Running
    /\ monPc = "loop"
    /\ monPc' = IF processed_count >= total_files THEN "done" ELSE "loop"
    /\ UNCHANGED <<confVars, mainVars, ioVars, data_chan, workerVars, out_chan,
                   writerVars, processed_count, histVars, pureVars>>

(***************************************************************************)
(* The compute workers.                                                    *)
(***************************************************************************)

\* a mutant of AddResult: the count of a decoded file is dropped
AddResultNever(total, result) == total

\* match result { Ok(count) => total_matches += count, Err(e) => eprintln!(..) }
AddResult(total, result) ==
    IF result.ok THEN total + result.count ELSE total

\* while let Ok((path, data)) = data_rx.recv(): a task when one is queued, the end of the loop (and of the
\* thread, which returns total_matches) when the channel is empty and the IO
\* thread has dropped data_tx; blocks otherwise.  The decoder is run on the
\* task's bytes: wCalls are the lines it will hand to the callback
WorkerTake(w, t, pr) ==
    /\ data_chan' = Tail(data_chan)
    /\ wTask' = [wTask EXCEPT ![w] = t]
    /\ wCalls' = [wCalls EXCEPT ![w] = pr.calls]
    /\ wResult' = [wResult EXCEPT ![w] = pr.result]
    /\ wPc' = [wPc EXCEPT ![w] = "decode"]

WorkerRecv(w) ==
    /\ Running
    /\ wPc[w] = "recv"
    /\ IF data_chan # <<>>
       THEN WorkerTake(w, Head(data_chan),
                       ProcessData(processor, task, Head(data_chan).data))
       ELSE /\ ioPc = "done"
            /\ wPc' = [wPc EXCEPT ![w] = "exited"]
            /\ UNCHANGED <<data_chan, wTask, wCalls, wResult>>
    /\ UNCHANGED <<confVars, mainVars, ioVars, local_buffer, wOut, total_matches,
                   out_chan, writerVars, processed_count, monVars, histVars, pureVars>>

\* a mutant of Callbacks: each line is put in front of the buffer
RECURSIVE CallbacksPrepend(_, _, _)
CallbacksPrepend(buf, calls, n) ==
    IF calls = <<>> \/ Len(buf) >= FlushThreshold
    THEN [buf |-> buf, rest |-> calls, n |-> n]
    ELSE CallbacksPrepend(Head(calls) \o <<NL>> \o buf, Tail(calls), n + 1)

\* a mutant of Callbacks: the buffer is cut at the flush threshold
RECURSIVE CallbacksCutAtThreshold(_, _, _)
CallbacksCutAtThreshold(buf, calls, n) ==
    IF Len(buf) >= FlushThreshold
    THEN [buf |-> SubSeq(buf, 1, FlushThreshold), rest |-> calls, n |-> n]
    ELSE IF calls = <<>>
    THEN [buf |-> buf, rest |-> calls, n |-> n]
    ELSE CallbacksCutAtThreshold(buf \o Head(calls) \o <<NL>>, Tail(calls), n + 1)

\* a mutant of Callbacks: the buffer is handed over after each line
RECURSIVE CallbacksEachLine(_, _, _)
CallbacksEachLine(buf, calls, n) ==
    IF calls = <<>> \/ Len(buf) >= 1
    THEN [buf |-> buf, rest |-> calls, n |-> n]
    ELSE CallbacksEachLine(buf \o Head(calls) \o <<NL>>, Tail(calls), n + 1)

\* the callback on the decoder's matched lines, one after the other: append
\* the line and "\n", and stop at the flush threshold.  [buf, rest, n]: the
\* buffer, the lines not yet handed over, the number handed over
RECURSIVE Callbacks(_, _, _)
Callbacks(buf, calls, n) ==
    IF calls = <<>> \/ Len(buf) >= FlushThreshold
    THEN [buf |-> buf, rest |-> calls, n |-> n]
    ELSE Callbacks(buf \o Head(calls) \o <<NL>>, Tail(calls), n + 1)

RECURSIVE BagOfSeq(_)
BagOfSeq(xs) == IF xs = <<>> THEN EmptyBag ELSE SetToBag({Head(xs)}) (+) BagOfSeq(Tail(xs))

\* the worker's state after the callbacks c: at the threshold the buffer is
\* swapped out and sent from inside the callback; when the decoder is through,
\* a non-empty buffer is swapped out and sent after it
WorkerDecoded(w, c) ==
    /\ wCalls' = [wCalls EXCEPT ![w] = c.rest]
    /\ sunk' = sunk (+) BagOfSeq(SubSeq(wCalls[w], 1, c.n))
    /\ sunk_failed' = IF wResult[w].ok THEN sunk_failed ELSE sunk_failed + c.n
    /\ local_buffer' = [local_buffer EXCEPT ![w] = <<>>]
    /\ wOut' = [wOut EXCEPT ![w] = c.buf]
    /\ wPc' = [wPc EXCEPT ![w] =
                  IF Len(c.buf) >= FlushThreshold THEN "send_cb"
                  ELSE IF c.buf # <<>> THEN "send_flush"
                  ELSE "account"]

\* process_*_data with the worker's callback, up to the next send or to the
\* end of the file: these steps touch nothing another thread sees
WorkerDecode(w) ==
    /\ Running
    /\ wPc[w] = "decode"
    /\ WorkerDecoded(w, Callbacks(local_buffer[w], wCalls[w], 0))
    /\ UNCHANGED <<confVars, mainVars, ioVars, data_chan, wTask, wResult, total_matches,
                   out_chan, writerVars, processed_count, monVars, expected, skipped,
                   sent, appended, pureVars>>

\* tx.send(new_buf).unwrap(): blocks while the channel is full; when the
\* writer has dropped rx the send fails and the unwrap panics the worker,
\* whose unwinding drops its task, buffers and channel handles
WorkerSend(w) ==
    /\ Running
    /\ wPc[w] \in {"send_cb", "send_flush"}
    /\ IF ~OutReceiverAlive
       THEN /\ wPc' = [wPc EXCEPT ![w] = "panicked"]
            /\ wTask' = [wTask EXCEPT ![w] = NoTask]
            /\ wCalls' = [wCalls EXCEPT ![w] = <<>>]
            /\ wOut' = [wOut EXCEPT ![w] = <<>>]
            /\ UNCHANGED <<out_chan, sent>>
       ELSE /\ OutChanHasRoom
            /\ out_chan' = Append(out_chan, wOut[w])
            /\ sent' = sent (+) SetToBag({wOut[w]})
            /\ wOut' = [wOut EXCEPT ![w] = <<>>]
            /\ wPc' = [wPc EXCEPT ![w] = IF wPc[w] = "send_cb" THEN "decode" ELSE "account"]
            /\ UNCHANGED <<wTask, wCalls>>
    /\ UNCHANGED <<confVars, mainVars, ioVars, data_chan, wResult, local_buffer,
                   total_matches, writerVars, processed_count, monVars, expected,
                   skipped, sunk, sunk_failed, appended, pureVars>>

\* the end of the loop body: add the file's count, fetch_add(1) on the shared
\* counter, drop(data)
WorkerAccount(w) ==
    /\ Running
    /\ wPc[w] = "account"
    /\ total_matches' = [total_matches EXCEPT ![w] =
                            AddResult(total_matches[w], wResult[w])]
    /\ processed_count' = processed_count + 1
    /\ wTask' = [wTask EXCEPT ![w] = NoTask]
    /\ wPc' = [wPc EXCEPT ![w] = "recv"]
    /\ UNCHANGED <<confVars, mainVars, ioVars, data_chan, wCalls, wResult, local_buffer,
                   wOut, out_chan, writerVars, monVars, histVars, pureVars>>

Next ==
    \/ FindFiles \/ CreateDir \/ PropagateErr \/ Spawn \/ JoinIO \/ JoinWorker
    \/ DropTx \/ JoinWriter \/ JoinProgress \/ Report \/ AfterTask
    \/ IORead \/ IOSend
    \/ WriterCreate \/ WriterDrain
    \/ MonitorPoll
    \/ \E w \in Workers :
         \/ WorkerRecv(w) \/ WorkerDecode(w) \/ WorkerSend(w) \/ WorkerAccount(w)

Spec == Init /\ [][Next]_vars

\* every thread that can run does run in the end: the scheduler lets no
\* runnable thread wait forever.  The progress thread's poll of a counter
\* below the total changes nothing and is no progress
FairSpec == Spec /\ WF_vars(Next)

(***************************************************************************)
(* The matchers and check_line on their own: Init draws the arguments of   *)
(* one call, the action makes the call.  The pipeline is not started.      *)
(***************************************************************************)

MaxRules == 2

\* the octets the addresses of the reduction check are made of: 1 and 10
\* share their first digit, 10 and 255 do not
Octets == {1, 10, 255}

CanonAddrs == {<<a, b, c, d>> : a \in Octets, b \in Octets, c \in Octets, d \in Octets}

CidrText(net, len) == AddrText(net) \o <<"/">> \o OctetText(len)

RangeText(lo, hi) == AddrText(lo) \o <<"-">> \o AddrText(hi)

\* the source_ip entries the rule sets are drawn from
RuleInputs ==
    { CidrText(<<1, 0, 0, 0>>, 8), CidrText(<<10, 1, 0, 0>>, 16),
      CidrText(<<1, 1, 1, 0>>, 24), CidrText(<<1, 1, 1, 128>>, 25),
      CidrText(<<0, 0, 0, 0>>, 7),
      RangeText(<<1, 1, 1, 2>>, <<1, 1, 1, 10>>),
      AddrText(<<1, 1, 1, 1>>) }

RuleSets == UNION {[1..k -> RuleInputs] : k \in 0..MaxRules}

\* the IP fields asked about: canonical addresses
MatchAddrs ==
    { <<1, 1, 1, 1>>, <<1, 1, 1, 2>>, <<1, 1, 1, 10>>, <<1, 1, 1, 11>>,
      <<1, 1, 1, 128>>, <<1, 1, 10, 1>>, <<1, 10, 1, 1>>, <<10, 1, 1, 1>>,
      <<11, 1, 1, 1>>, <<100, 1, 1, 1>>, <<0, 1, 1, 1>>, <<2, 1, 1, 1>> }

\* and fields that are not the text of an address
NonAddrTexts ==
    { <<"1", ".", "x">>,
      <<"1", ".", "1", ".", "1", ".", "9", "9", "9">>,
      <<"1", "0", ".", "1", ".", "1">> }

MatchTexts == {AddrText(a) : a \in MatchAddrs} \cup NonAddrTexts

MatchArgs == {[op |-> "matches", rules |-> r, a |-> t] : r \in RuleSets, t \in MatchTexts}

ReduceArgs ==
    {[op |-> "reduce", rules |-> <<CidrText(MaskAddr(n, m), m)>>, a |-> AddrText(a)] :
        n \in CanonAddrs, m \in {8, 16, 24}, a \in CanonAddrs}

\* the main thread before it starts anything
NotStarted ==
    /\ processor = MatchAllProcessor
    /\ pool_size = 1
    /\ native_flag = FALSE
    /\ task = "aggregated"
    /\ pcMain = "find_files"
    /\ total_files = 0
    /\ PipelineInit

pipelineVars == <<confVars, mainVars, ioVars, data_chan, workerVars, out_chan, writerVars,
                  processed_count, monVars, histVars>>

IpInit ==
    /\ NotStarted
    /\ arg \in MatchArgs \cup ReduceArgs
    /\ res = NoCall

MatchResult(m, ip_bytes) ==
    [op |-> "matches", ok |-> m.ok, rules |-> m.rules,
     value |-> IPMatcherMatches(m.rules, ip_bytes)]

\* IPMatcher::new(arg.rules) and then IPMatcher::matches(arg.a)
IPMatchCall ==
    /\ arg.op = "matches" /\ res.op = "none"
    /\ res' = MatchResult(IPMatcherNew(arg.rules), arg.a)
    /\ UNCHANGED <<arg, pipelineVars>>

ReduceResult(rule, ip_bytes) ==
    [op |-> "reduce", rule |-> rule, value |-> IPRuleMatches(rule, ip_bytes)]

\* IPRule::parse(arg.rules[1]) and then IPRule::matches(arg.a)
CidrReduceCall ==
    /\ arg.op = "reduce" /\ res.op = "none"
    /\ res' = ReduceResult(IPRuleParse(arg.rules[1]), arg.a)
    /\ UNCHANGED <<arg, pipelineVars>>

IpNext == IPMatchCall \/ CidrReduceCall

IpSpec == IpInit /\ [][IpNext]_vars

\* FileProcessor::new for source_ip = ["1.0.0.0/8"] alone,
IpOnlyProcessor == [ip |-> FilterProcessor.ip, domain |-> <<>>]

\* for query_domain = ["*.ex"] alone,
DomainOnlyProcessor == [ip |-> <<>>, domain |-> FilterProcessor.domain]

\* and for source_ip = ["1.1.1.1"], query_domain = ["a.ex"]
ExactProcessor ==
    [ip |-> IPMatcherNew(<<IpA>>).rules, domain |-> DomainMatcherNew(<<DomA>>)]

LineProcessors ==
    {FilterProcessor, IpOnlyProcessor, DomainOnlyProcessor, ExactProcessor, MatchAllProcessor}

\* the fields of a record up to its domain: IP and domain where the schema
\* has them, empty fields elsewhere
FieldsOf(schema, ip, dom) ==
    [i \in 1..(schema.domain_idx + 1) |->
        IF i = schema.ip_idx + 1 THEN ip
        ELSE IF i = schema.domain_idx + 1 THEN dom
        ELSE <<>>]

\* a line of the fields, "|" between them
RECURSIVE JoinFields(_)
JoinFields(fields) ==
    IF Len(fields) = 1 THEN fields[1]
    ELSE Head(fields) \o <<SEP>> \o JoinFields(Tail(fields))

\* what may follow the domain field: nothing, a field "x", a field "a.ex"
TailFields == {<<>>, <<<<"x">>>>, <<DomA>>}

\* the lines of a schema: full records, and records cut before the domain
SchemaLines(schema) ==
    {JoinFields(FieldsOf(schema, ip, dom) \o t) :
        ip \in {IpA, IpB}, dom \in {DomA, DomB}, t \in TailFields}
    \cup {JoinFields(SubSeq(FieldsOf(schema, ip, DomA), 1, schema.domain_idx)) :
        ip \in {IpA, IpB}}

LineArgsOf(schema) ==
    {[op |-> "check_line", proc |-> p, schema |-> schema, line |-> l] :
        p \in LineProcessors, l \in SchemaLines(schema)}

LineArgs == LineArgsOf(AggregatedSchema) \cup LineArgsOf(NativeSchema)

LineInit ==
    /\ NotStarted
    /\ arg \in LineArgs
    /\ res = NoCall

\* check_line as process_reader and process_native_reader call it
CheckLineCall ==
    /\ arg.op = "check_line" /\ res.op = "none"
    /\ res' = [op |-> "check_line",
               value |-> CheckLine(arg.proc, arg.line, arg.proc.ip # <<>>,
                                   arg.proc.domain # <<>>, arg.schema)]
    /\ UNCHANGED <<arg, pipelineVars>>

LineNext == CheckLineCall

LineSpec == LineInit /\ [][LineNext]_vars

\* the query_domain entries the rule sets are drawn from: "ex" stands for a
\* registered name such as example.com
DomainRuleInputs ==
    { <<"*", ".", "e", "x">>, <<"*", ".", "b", ".", "e", "x">>, <<"a", ".", "e", "x">>,
      <<"e", "x">>, <<"*", ".", "o", "r", "g">> }

DomainRuleSets == UNION {[1..k -> DomainRuleInputs] : k \in 0..MaxRules}

\* the domain fields asked about
DomainTexts ==
    { <<"e", "x">>, <<"a", ".", "e", "x">>, <<"n", "o", "t", "e", "x">>,
      <<"c", ".", "b", ".", "e", "x">>, <<"b", ".", "e", "x">>, <<".", "e", "x">>,
      <<"o", "r", "g">>, <<"a", ".", "o", "r", "g">>, <<"x">>, <<>> }

DomainArgs ==
    {[op |-> "domain", rules |-> r, a |-> t] : r \in DomainRuleSets, t \in DomainTexts}

DomInit ==
    /\ NotStarted
    /\ arg \in DomainArgs
    /\ res = NoCall

DomainResult(rules, domain) ==
    [op |-> "domain", rules |-> rules, value |-> DomainMatcherMatches(rules, domain)]

\* DomainMatcher::new(arg.rules) and then DomainMatcher::matches(arg.a)
DomainMatchCall ==
    /\ arg.op = "domain" /\ res.op = "none"
    /\ res' = DomainResult(DomainMatcherNew(arg.rules), arg.a)
    /\ UNCHANGED <<arg, pipelineVars>>

DomNext == DomainMatchCall

DomSpec == DomInit /\ [][DomNext]_vars

MaxPieces == 2

\* what a line of a decoded file may be: a one-byte line, a record, an empty
\* line, a line that is a lone "\r"
LineTexts == {<<"x">>, AggLine(IpA, DomA), <<>>, <<CR>>}

\* a line with its ending, "\n" or "\r\n"
Pieces == {l \o e : l \in LineTexts, e \in {<<NL>>, <<CR, NL>>}}

\* the decoded bytes of a file: up to MaxPieces closed lines and then
\* nothing or an unterminated last line
PlainOf(pieces, last) == Concat(pieces) \o last

Plains ==
    {PlainOf(ps, last) :
        ps \in UNION {[1..k -> Pieces] : k \in 0..MaxPieces}, last \in {<<>>, <<"x">>}}

DecodeArgs ==
    {[op |-> "decode", proc |-> p, schema |-> sc, data |-> [plain |-> d, err |-> e]] :
        p \in {MatchAllProcessor, FilterProcessor},
        sc \in {AggregatedSchema, NativeSchema}, d \in Plains, e \in BOOLEAN}

DecodeInit ==
    /\ NotStarted
    /\ arg \in DecodeArgs
    /\ res = NoCall

DecodeResult(pr) == [op |-> "decode", calls |-> pr.calls, result |-> pr.result]

\* process_reader / process_native_reader on the bytes of one file
DecodeCall ==
    /\ arg.op = "decode" /\ res.op = "none"
    /\ res' = DecodeResult(ProcessReader(arg.proc, arg.data, arg.schema))
    /\ UNCHANGED <<arg, pipelineVars>>

DecodeNext == DecodeCall

DecodeSpec == DecodeInit /\ [][DecodeNext]_vars

\* the endpoints the range texts are made of: addresses, an address with a
\* blank before or after it, a fourth octet above 255, a word, nothing, and
\* a network in CIDR notation
RangeEndpoints ==
    { AddrText(<<1, 1, 1, 1>>), AddrText(<<1, 1, 1, 9>>),
      <<" ">> \o AddrText(<<1, 1, 1, 9>>), AddrText(<<1, 1, 1, 1>>) \o <<" ">>,
      <<"1", ".", "1", ".", "1", ".", "2", "5", "6">>, <<"x">>, <<>>,
      CidrText(<<1, 0, 0, 0>>, 8) }

\* source_ip entries with one '-' and with two
DashInputs ==
    {a \o <<"-">> \o b : a \in RangeEndpoints, b \in RangeEndpoints}
    \cup {a \o <<"-">> \o b \o <<"-">> \o c :
            a \in RangeEndpoints, b \in RangeEndpoints, c \in {<<>>, AddrText(<<1, 1, 1, 9>>)}}

ParseRuleArgs == {[op |-> "parse_rule", input |-> t] : t \in DashInputs}

\* the texts an octet of a candidate is written as: plain, with leading
\* zeros up to a fourth digit, above 255, past the u16 (65536 wraps to 0,
\* 65791 to 255, 65792 to 256), empty, and not a number
OctetTexts ==
    { <<"1">>, <<"0", "1">>, <<"0", "0", "1">>, <<"0", "0", "0", "1">>,
      <<"2", "5", "5">>, <<"2", "5", "6">>, <<"6", "5", "5", "3", "6">>,
      <<"6", "5", "7", "9", "1">>, <<"6", "5", "7", "9", "2">>, <<>>, <<"x">> }

\* the IP fields handed to parse_ip_from_bytes: four octets, and three and five
IpCandidates ==
    {a \o <<DOT>> \o b \o <<DOT>> \o c \o <<DOT>> \o d :
        a \in OctetTexts, b \in {<<"1">>, <<>>, <<"0", "0", "0", "1">>},
        c \in {<<"1">>, <<"0", "0", "0", "1">>}, d \in OctetTexts}
    \cup {a \o <<DOT, "1", DOT, "1">> : a \in OctetTexts}
    \cup {a \o <<DOT, "1", DOT, "1", DOT, "1", DOT, "1">> : a \in OctetTexts}

ParseIpArgs == {[op |-> "parse_ip", bytes |-> t] : t \in IpCandidates}

ParseInit ==
    /\ NotStarted
    /\ arg \in ParseRuleArgs \cup ParseIpArgs
    /\ res = NoCall

\* IPRule::parse(arg.input)
IPRuleParseCall ==
    /\ arg.op = "parse_rule" /\ res.op = "none"
    /\ res' = [op |-> "parse_rule", rule |-> IPRuleParse(arg.input)]
    /\ UNCHANGED <<arg, pipelineVars>>

\* what parse_ip_from_bytes comes to in a build with (checks) or without
\* overflow checks: a panic where the u16 overflows in the one, the value
\* computed on the wrapped u16 in the other
ParseIpOutcome(bytes, checks) ==
    IF checks /\ Len(bytes) <= 15 /\ ParseIpOverflows(bytes, 1, 0, 0, FALSE)
    THEN [op |-> "parse_ip", panic |-> TRUE, value |-> None]
    ELSE [op |-> "parse_ip", panic |-> FALSE, value |-> ParseIpFromBytes(bytes)]

\* parse_ip_from_bytes(arg.bytes)
ParseIpCall ==
    /\ arg.op = "parse_ip" /\ res.op = "none"
    /\ \E checks \in BOOLEAN : res' = ParseIpOutcome(arg.bytes, checks)
    /\ UNCHANGED <<arg, pipelineVars>>

ParseNext == IPRuleParseCall \/ ParseIpCall

ParseSpec == ParseInit /\ [][ParseNext]_vars

(***************************************************************************)
(* Properties of the pipeline.                                             *)
(***************************************************************************)

\* the task has printed its summary and returned Ok
Reported == pcMain = "returned" /\ reported # -1

\* a piece without its closing "\n"
Unclosed(piece) == SubSeq(piece, 1, Len(piece) - 1)

\* the records of an output file, each written as the line and "\n"
RecordsIn(pieces) == [i \in 1..Len(pieces) |-> Unclosed(pieces[i])]

RecordsOf(bytes) == RecordsIn(ReadLines(bytes))

\* the full-file buffers in memory: the one the IO thread has read and not
\* yet sent, those queued, those a worker holds
Resident ==
    (IF ioPc = "send" THEN 1 ELSE 0) + Len(data_chan)
        + Cardinality({w \in Workers : wTask[w] # NoTask})

\* C1: when a task reports, the record count it reports (the sum of the
\* joined workers' totals) is the sum over its files of the count the decoder
\* returns for the file alone, for every pool size and interleaving
C1_Conservation == Reported => reported = expected

\* C1's case: a pool of two workers has reported, each worker having counted
\* matches of its own
C1_Witness ==
    /\ Reported /\ pool_size = 2
    /\ total_matches[1] > 0 /\ total_matches[2] > 0
    /\ reported = total_matches[1] + total_matches[2]

\* C2: when a task's pipeline has completed, every chunk sent on the output
\* channel was appended exactly once, the output file holds exactly the lines
\* the sink was invoked for, and no worker is left with a non-empty buffer
C2_NoLossNoDup ==
    Reported =>
        /\ sent = appended
        /\ BagOfSeq(RecordsOf(out_file)) = sunk
        /\ \A w \in Workers : local_buffer[w] = <<>> /\ wOut[w] = <<>>

C4_SkipDoesNotStall ==
    (skipped > 0 /\ pcMain = "join_progress" /\ writerPc = "ok") =>
        (monPc = "done" \/ processed_count >= total_files)

\* C5: a file whose decoding fails contributes nothing: none of its lines is
\* given to the sink, and the count a task reports is the number of records
\* in its output file
C5_FailedFileContributesNothing ==
    (Reported /\ writerPc = "ok") =>
        /\ sunk_failed = 0
        /\ reported = Len(RecordsOf(out_file))

\* C6: when the output file cannot be created the task neither reports a
\* record count as if it had succeeded nor panics
C6_CreateFailureAborts ==
    writerPc = "err" => ~Reported /\ pcMain # "report" /\ pcMain # "panicked"

\* C7 as claimed: when main ends on a task's fatal setup error and the native
\* task is enabled, the native task has been run
C7_NativeRunsAsClaimed == (pcMain = "exit_err" /\ native_flag) => task = "native"

\* C7 as amended: a fatal setup error of a task ends main with that error,
\* whatever the flag says, so after such an error of the aggregated task the
\* native task is not run; the native task starts only after the aggregated
\* task returned Ok, and only when the flag enables it
C7_SetupErrorEndsMain ==
    [][/\ pcMain = "task_err" => (pcMain' = "exit_err" /\ task' = task)
       /\ task' # task => (pcMain = "returned" /\ task = "aggregated" /\ native_flag)]_vars

\* C7's case: the aggregated task's setup failed with the native task enabled,
\* and main has ended without running it
C7_Witness == pcMain = "exit_err" /\ task = "aggregated" /\ native_flag

\* the number a record of the task's population carries
TagOf(t, rec) == IF t = "aggregated" THEN rec[Len(rec)] ELSE rec[1]

TagsIn(t, recs) == [i \in 1..Len(recs) |-> DigitVal(TagOf(t, recs[i]))]

\* the numbers of the records of a chunk or of the output file, in order
TagsOf(t, bytes) == TagsIn(t, RecordsOf(bytes))

Increasing(ns) == \A i \in 1..Len(ns) : \A j \in (i + 1)..Len(ns) : ns[i] < ns[j]

CountUpTo(ns, k, n) == Cardinality({i \in 1..k : ns[i] = n})

\* the files' matched records are numbered 1, 3, 4 or 1 alone: ns is a merge
\* of such sequences, each in its order, iff every prefix of ns has at least
\* as many 1s as 3s and as many 3s as 4s
MergeOfFiles(ns) ==
    \A k \in 1..Len(ns) :
        /\ CountUpTo(ns, k, 1) >= CountUpTo(ns, k, 3)
        /\ CountUpTo(ns, k, 3) >= CountUpTo(ns, k, 4)

\* the file-bytes channel holds paths in discovery order, all of them before
\* the path the IO thread is at and after the paths the workers hold
QueuedInOrder ==
    /\ \A i \in 1..Len(data_chan) :
        /\ data_chan[i].path < ioIdx
        /\ \A j \in (i + 1)..Len(data_chan) : data_chan[i].path < data_chan[j].path
        /\ \A w \in Workers : wTask[w] # NoTask => wTask[w].path < data_chan[i].path

\* a send appends the IO thread's path at the back, a worker takes the front
FifoStep ==
    /\ Len(data_chan') > Len(data_chan) =>
          data_chan' = Append(data_chan, [path |-> ioIdx, data |-> ioBuf])
    /\ \A w \in Workers :
          (wTask'[w] # wTask[w] /\ wTask'[w] # NoTask) =>
              (data_chan # <<>> /\ wTask'[w] = Head(data_chan) /\ data_chan' = Tail(data_chan))

\* the records of every chunk sent or about to be sent are in in-file order
ChunksInOrder ==
    /\ \A c \in BagToSet(sent) : Increasing(TagsOf(task, c))
    /\ \A w \in Workers : Increasing(TagsOf(task, wOut[w]))

Exited == pcMain \in {"exit_ok", "exit_err", "panicked"}

\* C14: when every file of a task can be opened and read and its output
\* file can be created, the task's pipeline terminates and main goes on to
\* its end: every run ends with main exited, unless a file was skipped or an
\* output file could not be created
C14_DeadlockFree == <>(Exited \/ skipped > 0 \/ writerPc = "err")

\* C14's case: both tasks ran with the largest pool and several files, none
\* skipped, and main has returned
C14_Witness ==
    /\ pcMain = "exit_ok" /\ task = "native"
    /\ pool_size = MaxWorkers /\ total_files > 1
    /\ skipped = 0 /\ writerPc = "ok"
    /\ processed_count = total_files

\* main's position says which joins are behind it: the IO thread, then every
\* worker, then drop(tx), then the writer, then the progress thread
JoinOrder ==
    /\ pcMain \in {"join_workers", "drop_tx", "join_writer", "join_progress", "report"}
          => ioPc = "done"
    /\ pcMain \in {"drop_tx", "join_writer", "join_progress", "report"}
          => \A w \in Workers : wPc[w] = "exited"
    /\ pcMain \in {"join_writer", "join_progress", "report"} => ~tx_main
    /\ pcMain \in {"join_progress", "report"} => writerPc \in {"ok", "err"}
    /\ pcMain = "report" => monPc = "done"

\* the writer thread has ended
WriterEnded == writerPc \in {"ok", "err"}

\* C15: main joins the IO thread, then the workers, then drops its sender,
\* then joins the writer, then the progress thread; and the writer has ended
\* only when every sender of the output channel, main's and each worker's
\* clone, has been dropped: it never ends while a worker can still send
C15_ShutdownOrdering == JoinOrder /\ (WriterEnded => ~OutSenderAlive)

\* the tasks the IO thread has pushed: each round of its loop that is behind
\* it either skipped its file or sent it
Pushed == ioIdx - 1 - skipped

\* the workers that hold a file buffer
Holding == {w \in Workers : wTask[w] # NoTask}

\* no path is in two places: twice in the channel, with two workers, or in
\* the channel and with a worker
PathsDistinct ==
    /\ \A i, j \in 1..Len(data_chan) : i # j => data_chan[i].path # data_chan[j].path
    /\ \A w, v \in Holding : w # v => wTask[w].path # wTask[v].path
    /\ \A w \in Holding : \A i \in 1..Len(data_chan) : wTask[w].path # data_chan[i].path

\* every pushed task is in one place: queued, held by one worker, or finished
OneOwner ==
    /\ Pushed = Len(data_chan) + Cardinality(Holding) + processed_count
    /\ PathsDistinct
    /\ \A w \in Workers : wPc[w] = "recv" => wTask[w] = NoTask
    /\ pcMain \in {"drop_tx", "join_writer", "join_progress", "report"}
          => data_chan = <<>> /\ processed_count = Pushed

\* a worker gets a buffer only by taking the head of the channel, with no
\* buffer in its hands, and keeps it until it lets go of it
TakeStep ==
    \A w \in Workers :
        /\ (wTask[w] = NoTask /\ wTask'[w] # NoTask)
              => /\ data_chan # <<>>
                 /\ wTask'[w] = Head(data_chan)
                 /\ data_chan' = Tail(data_chan)
                 /\ \A v \in Workers \ {w} : wTask'[v] = wTask[v]
        /\ wTask[w] # NoTask => wTask'[w] \in {wTask[w], NoTask}

\* a worker's thread ends only with the IO thread done and the channel empty
LeaveStep ==
    \A w \in Workers :
        (wPc[w] \notin {"idle", "exited", "panicked"} /\ wPc'[w] \in {"exited", "panicked"})
            => ioPc = "done" /\ data_chan = <<>>

\* C16: every task the IO thread pushed is received by exactly one worker and
\* decoded once, none is dropped unprocessed; a worker holds at most one file
\* buffer and has released it before its next recv; and a worker leaves its
\* loop only when the IO thread has finished and the channel is empty
C16_TaskOwnership == []OneOwner /\ [][TakeStep /\ LeaveStep]_vars

\* this step is worker w's send of the chunk in its hands
SendBy(w) ==
    /\ wPc[w] \in {"send_cb", "send_flush"}
    /\ out_chan' = Append(out_chan, wOut[w])

\* the worker's input is exhausted: the IO thread has finished and every task
\* is drained from the channel
InputExhausted == ioPc = "done" /\ data_chan = <<>>

\* C17 as claimed: a worker sends its buffer only at the flush threshold or
\* with its input exhausted; a buffer below the threshold is never sent while
\* the worker still has input to receive
C17_FlushAsClaimed ==
    [][\A w \in Workers :
          SendBy(w) => (Len(wOut[w]) >= FlushThreshold \/ InputExhausted)]_vars

\* C17: a worker sends its buffer only at the flush threshold or, non-empty,
\* when the decoder is through with the file in its hands: the remainder is
\* flushed after each file, and the buffer is empty at every recv
C17_FlushPolicy ==
    /\ [][\A w \in Workers :
             SendBy(w) => \/ Len(wOut[w]) >= FlushThreshold
                          \/ (wOut[w] # <<>> /\ wCalls[w] = <<>>)]_vars
    /\ [](\A w \in Workers : wPc[w] = "recv" => local_buffer[w] = <<>>)

\* C17's case: the one worker has sent a buffer below the threshold, not yet
\* written, and its next task is already queued
C17_Witness ==
    /\ pool_size = 1 /\ wPc[1] = "account"
    /\ out_chan # <<>> /\ Len(out_chan[1]) < FlushThreshold
    /\ data_chan # <<>>

\* neither channel holds more than its capacity
WithinCapacity == Len(data_chan) <= DataChanCap /\ Len(out_chan) <= OutChanCap

\* a channel changes by a send at its end or a recv at its head (or is gone
\* with its task), and while it is full only by a recv
QueueStep(q, qNext, cap) ==
    \/ qNext = q
    \/ q # <<>> /\ qNext = Tail(q)
    \/ Len(q) < cap /\ Len(qNext) = Len(q) + 1 /\ SubSeq(qNext, 1, Len(q)) = q
    \/ pcMain = "returned" /\ qNext = <<>>

\* the sender on a full channel whose receiver is there waits with its item
SenderWaits ==
    /\ (ioPc = "send" /\ Len(data_chan) = DataChanCap /\ DataReceiverAlive)
          => (ioPc' = "send" /\ ioBuf' = ioBuf)
    /\ \A w \in Workers :
          (wPc[w] \in {"send_cb", "send_flush"} /\ Len(out_chan) = OutChanCap
              /\ OutReceiverAlive)
             => (wPc'[w] = wPc[w] /\ wOut'[w] = wOut[w])

\* the receiver on an empty channel that has a sender left waits
ReceiverWaits ==
    /\ \A w \in Workers :
          (wPc[w] = "recv" /\ data_chan = <<>> /\ ioPc # "done")
             => (wPc'[w] = "recv" /\ wTask'[w] = NoTask)
    /\ (writerPc = "drain" /\ out_chan = <<>> /\ OutSenderAlive)
          => (writerPc' = "drain" /\ out_file' = out_file)

\* C18: the file-bytes channel never holds more than its capacity of tasks
\* and the output channel never more than its capacity of chunks; a sender
\* on a full channel blocks, nothing dropped or overwritten, until a receiver
\* takes an item, and a receiver on an empty channel blocks until an item
\* arrives or all senders are gone
C18_Backpressure ==
    /\ []WithinCapacity
    /\ [][/\ QueueStep(data_chan, data_chan', DataChanCap)
          /\ QueueStep(out_chan, out_chan', OutChanCap)
          /\ SenderWaits /\ ReceiverWaits]_vars

\* C18's case: both channels are full, with the IO thread and a worker
\* blocked in their sends and the writer there to receive
C18_Witness ==
    /\ Len(data_chan) = DataChanCap /\ ioPc = "send"
    /\ Len(out_chan) = OutChanCap /\ writerPc = "drain"
    /\ \E w \in Workers : wPc[w] \in {"send_cb", "send_flush"}

\* the counter is 0 before a task's threads are spawned and never above the
\* task's number of files
CounterInRange ==
    /\ pcMain \in {"find_files", "create_dir", "spawn"} => processed_count = 0
    /\ Running => processed_count <= total_files

\* this step is worker w's end of the loop body for the file in its hands
FinishesFile(w) == wTask[w] # NoTask /\ wPc[w] = "account" /\ wPc'[w] = "recv"

\* the counter changes by one, with a worker finishing a file, whatever the
\* decoder returned; or it is the next task's new counter
CounterStep ==
    /\ processed_count' # processed_count
          => \/ /\ processed_count' = processed_count + 1
                /\ \E w \in Workers : FinishesFile(w)
                /\ monPc' = monPc
             \/ pcMain = "returned" /\ task' # task /\ processed_count' = 0
    /\ \A w \in Workers : FinishesFile(w) => processed_count' = processed_count + 1

\* the progress thread ends only on a load that is at or above the total
MonitorStep ==
    (monPc = "loop" /\ monPc' = "done") => processed_count >= total_files

\* C19: the counter of finished files starts at 0 for each task, never
\* decreases, goes up by one for each file a worker finishes, decoded or
\* failed, and never exceeds the task's number of files; the progress thread
\* never changes it, and ends once, and only once, it sees the counter at or
\* above that number
C19_ProgressAccounting ==
    /\ []CounterInRange
    /\ [][CounterStep /\ MonitorStep]_vars
    /\ ((monPc = "loop" /\ processed_count >= total_files) ~> (monPc = "done"))

\* C19's case: all of several files are counted, one of them a file whose
\* decoding failed after a matching line, and the progress thread has ended
C19_Witness ==
    /\ monPc = "done" /\ total_files > 1 /\ processed_count = total_files
    /\ sunk_failed > 0

\* every worker's thread has ended
WorkersGone == \A w \in Workers : wPc[w] \in {"exited", "panicked"}

\* C20: when every worker is gone while the IO thread still has a file to
\* push, its send fails and the IO thread stops early: it does not block
\* forever on the channel
C20_SendFailsWithoutWorkers ==
    (Running /\ WorkersGone /\ ioPc = "send") ~> (ioPc = "done" \/ Exited)

\* no thread of a pipeline is running: each is not spawned or has ended, and
\* main holds no sender
ThreadsEnded ==
    /\ ioPc \in {"idle", "done"}
    /\ \A w \in 1..MaxWorkers : wPc[w] \in {"idle", "exited"}
    /\ writerPc \in {"idle", "ok", "err"}
    /\ monPc \in {"idle", "done"}
    /\ ~tx_main

\* the one change of task: from the aggregated to the native one, main back
\* from run_aggregated_log_search with every thread of its pipeline ended
TaskStep ==
    task' # task
        => /\ task = "aggregated" /\ task' = "native"
           /\ pcMain = "returned"
           /\ ThreadsEnded

\* C21: the two tasks never overlap and share no state that changes: every
\* thread of the aggregated pipeline has ended and is joined before the
\* native task starts, the native task starts with new, empty channels and a
\* new counter at 0, and it runs only when the flag says so
C21_TasksSequential ==
    /\ [](task = "native" => native_flag)
    /\ []((task = "native" /\ pcMain \in {"find_files", "create_dir", "spawn"})
            => PipelineInit)
    /\ [][TaskStep]_vars

\* C21's case: the native task's pipeline is at work, with a task queued, a
\* chunk queued and a file counted
C21_Witness ==
    /\ task = "native" /\ native_flag /\ Running
    /\ data_chan # <<>> /\ out_chan # <<>> /\ processed_count > 0

\* the bytes are records the sink was invoked for, one after the other, each
\* closed by its "\n", and at least one of them
WholeRecords(bytes) ==
    /\ bytes # <<>>
    /\ bytes[Len(bytes)] = NL
    /\ \A i \in 1..Len(RecordsOf(bytes)) : BagIn(RecordsOf(bytes)[i], sunk)

\* C25: every chunk put on the output channel is non-empty and is made of
\* whole records, each followed by one "\n": no record is split across two
\* chunks, so the output file never holds a partial line, whatever the
\* workers' interleaving
C25_ChunkIntegrity ==
    /\ \A w \in Workers : wPc[w] \in {"send_cb", "send_flush"} => WholeRecords(wOut[w])
    /\ \A i \in 1..Len(out_chan) : WholeRecords(out_chan[i])
    /\ \A c \in BagToSet(sent) : WholeRecords(c)
    /\ out_file = <<>> \/ WholeRecords(out_file)

\* C25's case: a chunk of two records is queued behind a chunk already
\* written, and each of the two workers is blocked sending a chunk of its own
C25_Witness ==
    /\ pool_size = 2 /\ out_file # <<>>
    /\ out_chan # <<>> /\ Len(RecordsOf(out_chan[1])) >= 2
    /\ \A w \in Workers : wPc[w] \in {"send_cb", "send_flush"}

(***************************************************************************)
(* Properties of check_line and of the IP matcher.                         *)
(***************************************************************************)

IpFieldOk(proc, fields, schema) ==
    proc.ip = <<>> \/ (Len(fields) > schema.ip_idx
                        /\ IPMatcherMatches(proc.ip, fields[schema.ip_idx + 1]))

DomainFieldOk(proc, fields, schema) ==
    proc.domain = <<>> \/ (Len(fields) > schema.domain_idx
                            /\ DomainMatcherMatches(proc.domain, fields[schema.domain_idx + 1]))

\* the field-wise AND of a line's "|"-separated fields
FieldwiseAnd(proc, fields, schema) ==
    IpFieldOk(proc, fields, schema) /\ DomainFieldOk(proc, fields, schema)

\* C8: check_line returns true exactly when the IP matcher is empty or the
\* field at the IP index exists and matches it, and the domain matcher is
\* empty or the field at the domain index exists and matches it: the bytes
\* after a field's closing separator have no say
C8_FieldwiseAnd ==
    res.op = "check_line" =>
        (res.value <=> FieldwiseAnd(arg.proc, Split(arg.line, SEP), arg.schema))

\* a is in the network c
InNetwork(c, addr) == addr # None /\ CidrContains(c.net, c.len, addr)

\* low <= a <= high
InRange(lo, hi, addr) == addr # None /\ AddrLeq(lo, addr) /\ AddrLeq(addr, hi)

\* what a source_ip entry means: the network of a CIDR, the addresses of a
\* range, the one text of anything else
SemContains(input, a) ==
    IF Contains(input, "/")
    THEN InNetwork(CidrFromStr(input), StdParseIpAddr(a))
    ELSE IF Contains(input, "-")
    THEN InRange(StdParseIpAddr(Split(input, "-")[1]), StdParseIpAddr(Split(input, "-")[2]),
                 StdParseIpAddr(a))
    ELSE a = input

SemMatches(inputs, a) ==
    inputs = <<>> \/ \E i \in 1..Len(inputs) : SemContains(inputs[i], a)

\* C9 as claimed: for every rule set and every field a, IPMatcher.matches(a)
\* is true iff the set is empty or some rule semantically contains a
C9_MatchesAsClaimed ==
    (res.op = "matches" /\ res.ok) => (res.value <=> SemMatches(arg.rules, arg.a))

\* C9 as amended: the same for every field a that is the canonical dotted
\* decimal text of an IPv4 address
C9_MatchesOnAddresses ==
    (res.op = "matches" /\ res.ok /\ StdParseIpAddr(arg.a) # None) =>
        (res.value <=> SemMatches(arg.rules, arg.a))

\* C9's case: a set of a reduced CIDR and a range, asked about an address the
\* CIDR does not contain and the range does
C9_Witness ==
    /\ res.op = "matches" /\ res.ok /\ res.value
    /\ Len(res.rules) = 2
    /\ res.rules[1].kind = "Prefix" /\ res.rules[2].kind = "Range"
    /\ StdParseIpAddr(arg.a) # None
    /\ ~SemContains(arg.rules[1], arg.a)

\* C10: a CIDR of mask 8, 16 or 24 is parsed to a prefix rule, and that
\* rule's byte-prefix test on the canonical text of an address says what the
\* CIDR containment test says on the address
C10_PrefixReduction ==
    res.op = "reduce" =>
        /\ res.rule.kind = "Prefix"
        /\ res.value <=> InNetwork(CidrFromStr(arg.rules[1]), StdParseIpAddr(arg.a))

\* C10's case: 1.0.0.0/8 asked about 10.1.1.1, whose text begins with "1"
\* and not with "1."
C10_Witness ==
    /\ res.op = "reduce"
    /\ arg.rules[1] = CidrText(<<1, 0, 0, 0>>, 8)
    /\ arg.a = AddrText(<<10, 1, 1, 1>>)
    /\ ~res.value

\* the rule of a text split at its first '-', at position p: the range of
\* the two endpoints when both are addresses, the parse error otherwise
RangeAtFirstDash(input, p) ==
    RangeOf(StdParseIpAddr(Trim(SubSeq(input, 1, p - 1))),
            StdParseIpAddr(Trim(SubSeq(input, p + 1, Len(input)))))

\* the input has a '-' and is not read as a CIDR
DashNotCidr(input) ==
    /\ Contains(input, "-")
    /\ Contains(input, "/") => CidrFromStr(input) = NoCidr

\* C22: a source_ip entry with a '-' that is not read as a CIDR is split at
\* its first '-' and parsed to the range of the two endpoints when both are
\* addresses, and to a parse error otherwise: never to an exact rule
C22_RangeOrError ==
    (res.op = "parse_rule" /\ DashNotCidr(arg.input))
        => /\ res.rule = RangeAtFirstDash(arg.input, FindFrom(arg.input, "-", 1))
           /\ res.rule.kind # "Exact"

\* an octet as the claim has it: 1 to 3 decimal digits, value at most 255
DecimalOctet(s) == Len(s) \in 1..3 /\ AllDigits(s) /\ DecValue(s) <= 255

\* the address of exactly four such octets, None for anything else
AddrOfDecimalParts(parts) ==
    IF Len(parts) = 4 /\ \A i \in 1..4 : DecimalOctet(parts[i])
    THEN <<DecValue(parts[1]), DecValue(parts[2]), DecValue(parts[3]), DecValue(parts[4])>>
    ELSE None

\* C23: parse_ip_from_bytes yields an address only for four dot-separated
\* octets of 1 to 3 decimal digits and value at most 255 each, and then that
\* address; an octet of more than 3 digits, of a value above 255 (one that
\* overflows the u16 included) or empty is rejected
C23_InlineParse ==
    res.op = "parse_ip"
        => /\ ~res.panic
           /\ res.value = AddrOfDecimalParts(Split(arg.bytes, DOT))

(***************************************************************************)
(* Properties of the domain matcher.                                       *)
(***************************************************************************)

\* C11: a wildcard rule "*." suffix never matches the candidate that is the
\* bare suffix ("*.ex" does not match "ex"); it matches "a.ex" and does not
\* match "notex"
C11_WildcardBoundary ==
    (res.op = "domain" /\ Len(arg.rules) = 1 /\ StartsWith(arg.rules[1], <<"*", DOT>>)) =>
        /\ arg.a = SubSeq(arg.rules[1], 3, Len(arg.rules[1])) => ~res.value
        /\ arg.a = <<"a", DOT>> \o SubSeq(arg.rules[1], 3, Len(arg.rules[1])) => res.value
        /\ arg.a = <<"n", "o", "t">> \o SubSeq(arg.rules[1], 3, Len(arg.rules[1])) => ~res.value

\* a query_domain entry says yes to a candidate: "*." and a suffix when the
\* candidate is the suffix after k bytes, none of them or the last a '.';
\* any other entry when the candidate is that entry
EntryMatches(input, d) ==
    IF StartsWith(input, <<"*", DOT>>)
    THEN \E k \in 0..Len(d) :
            /\ SubSeq(d, k + 1, Len(d)) = SubSeq(input, 3, Len(input))
            /\ (k = 0 \/ d[k] = DOT)
    ELSE d = input

\* C24: a wildcard rule matches a candidate iff the candidate ends with the
\* suffix and what is before the suffix is nothing or ends with '.'; an
\* exact rule matches iff the candidate is its text; the matcher is the OR
\* of its rules and matches everything when it has none
C24_DomainMatches ==
    res.op = "domain"
        => (res.value <=> (\/ arg.rules = <<>>
                           \/ \E i \in 1..Len(arg.rules) : EntryMatches(arg.rules[i], arg.a)))

\* C24's case: an exact rule that says no and a wildcard rule that says yes
\* to the candidate "b.ex", the '.' before the suffix "ex"
C24_Witness ==
    /\ res.op = "domain" /\ res.value
    /\ arg.rules = << <<"a", ".", "e", "x">>, <<"*", ".", "e", "x">> >>
    /\ arg.a = <<"b", ".", "e", "x">>

(***************************************************************************)
(* Properties of the decoder.                                              *)
(***************************************************************************)

\* a line without one trailing "\r"
WithoutCR(l) == IF l # <<>> /\ l[Len(l)] = CR THEN SubSeq(l, 1, Len(l) - 1) ELSE l

RECURSIVE NonEmptyOf(_)
NonEmptyOf(ls) ==
    IF ls = <<>> THEN <<>>
    ELSE IF WithoutCR(Head(ls)) = <<>> THEN NonEmptyOf(Tail(ls))
    ELSE <<WithoutCR(Head(ls))>> \o NonEmptyOf(Tail(ls))

\* the non-empty lines of a text, in order: what lies between its "\n"s,
\* less one trailing "\r"
NonEmptyLines(plain) == NonEmptyOf(Split(plain, NL))

\* C12: with both rule sets empty the decoder hands every non-empty line of a
\* decoded file to the sink verbatim and in order, and the count it returns is
\* the number of the file's non-empty lines; no empty line is handed over
C12_MatchAll ==
    (res.op = "decode" /\ arg.proc = MatchAllProcessor /\ ~arg.data.err) =>
        /\ res.calls = NonEmptyLines(arg.data.plain)
        /\ res.result = [ok |-> TRUE, count |-> Len(NonEmptyLines(arg.data.plain))]
        /\ \A i \in 1..Len(res.calls) : res.calls[i] # <<>>

\* C12's case: a "\r\n" line, an empty line and an unterminated last line
C12_Witness ==
    /\ res.op = "decode" /\ arg.proc = MatchAllProcessor /\ ~arg.data.err
    /\ arg.data.plain = <<"x", CR, NL, NL, "x">>
    /\ res.calls = <<<<"x">>, <<"x">>>>
    /\ res.result.count = 2

====
